---- MODULE Spec2Model ----
(***************************************************************************)
(* Jump Point Search of blitz-path (src/src/jps.rs): jps_path, check_jump, *)
(* forced_horizontal, forced_vertical and expand, over a grid oracle that  *)
(* answers false for every coordinate outside the grid.                    *)
(*                                                                         *)
(* Coordinates are usize in the source.  A coordinate of -1 stands for the *)
(* value usize::MAX that the casts `(c as i32 - 1) as usize` produce from  *)
(* c = 0: casting it back to i32 gives -1 again, so the arithmetic of the  *)
(* scans is the arithmetic on these integers.                              *)
(*                                                                         *)
(* Costs are f64 in the source.  They are fixed-point numbers here, Scale  *)
(* units to 1.0, and two costs closer than Eps are the same cost.          *)
(***************************************************************************)
EXTENDS Integers, Sequences, FiniteSets, Bags, TLC

VARIABLES
    map,       \* the grid: [width, height, blocked]
    start,     \* jps_path's argument start
    goal,      \* jps_path's argument goal
    open,      \* the BinaryHeap `open`, a bag of nodes
    closed,    \* the Vec `closed`
    pc,        \* "call": jps_path entered; "loop": at the while; "done": returned
    result,    \* what jps_path returned
    scans      \* number of check_jump calls made by the main loop

vars == <<map, start, goal, open, closed, pc, result, scans>>

\* ---------------------------------------------------------------- bounds

\* Width and height of the grids of Spec.
Width == 4

Height == 3

\* Largest number of untraversable cells of a grid of Spec.
MaxBlocked == 2

\* ------------------------------------------------------------ fixed point

\* Fixed-point unit: five decimal digits after the point.
Scale == 100 * 1000

\* Costs closer than this are equal "within floating-point tolerance".
Eps == Scale \div 2000

\* Stand-in for the distances of about 1.8e19 to a coordinate usize::MAX.
Huge == 1000 * Scale

\* Largest squared distance between two cells that the table covers.
MaxSq == 2 * (Width + Height + 8) * (Width + Height + 8)

\* Square root by the digit-by-digit method: p is the root found so far and r
\* the remainder, k the number of decimal digits still to produce.
RECURSIVE SqrtDigits(_, _, _)
SqrtDigits(p, r, k) ==
    IF k = 0 THEN p
    ELSE LET r100 == r * 100
             d == CHOOSE e \in 0..9 :
                      /\ (20 * p + e) * e <= r100
                      /\ (e = 9 \/ (20 * p + e + 1) * (e + 1) > r100)
         IN SqrtDigits(10 * p + d, r100 - (20 * p + d) * d, k - 1)

\* floor(sqrt(n) * Scale)
ISqrt(n) ==
    LET p0 == CHOOSE q \in 0..n : q * q <= n /\ (q + 1) * (q + 1) > n
    IN SqrtDigits(p0, n - p0 * p0, 5)

SqrtTable == [n \in 0..MaxSq |-> ISqrt(n)]

Abs(i) == IF i < 0 THEN -i ELSE i
Sign(i) == IF i < 0 THEN -1 ELSE IF i > 0 THEN 1 ELSE 0
Min(a, b) == IF a < b THEN a ELSE b
Max(a, b) == IF a > b THEN a ELSE b

\* Two costs equal within the tolerance.
Close(a, b) == Abs(a - b) <= Eps

\* ------------------------------------------------------------- utilities

\* utils::distance: Euclidean distance between two cells.
distance(a, b) ==
    IF (a[1] # b[1] /\ (a[1] < 0 \/ b[1] < 0)) \/ (a[2] # b[2] /\ (a[2] < 0 \/ b[2] < 0))
    THEN Huge
    ELSE SqrtTable[(a[1] - b[1]) * (a[1] - b[1]) + (a[2] - b[2]) * (a[2] - b[2])]

\* utils::direction: the signs of the steps from the parent `b` to the cell `a`.
direction(a, b) == <<Sign(a[1] - b[1]), Sign(a[2] - b[2])>>

\* Node::new
NewNode(g, h, position, parent) ==
    [g |-> g, h |-> h, position |-> position, parent |-> parent]

\* Node::from_parent
from_parent(parent, position, g0al) ==
    NewNode(parent.g + distance(parent.position, position),
            distance(position, g0al), position, parent.position)

\* Node.f
F(n) == n.g + n.h

\* ----------------------------------------------------------------- oracle

\* MovingAiMap::is_traversable: false outside the grid.
is_traversable(m, c) ==
    /\ c[1] >= 0 /\ c[1] < m.width
    /\ c[2] >= 0 /\ c[2] < m.height
    /\ c \notin m.blocked

\* ---------------------------------------------------------------- scanner

\* The enum Direction.
Vertical(vert) == [tag |-> "Vertical", hor |-> 0, vert |-> vert]
Horizontal(hor) == [tag |-> "Horizontal", hor |-> hor, vert |-> 0]
Diagonal(hor, vert) == [tag |-> "Diagonal", hor |-> hor, vert |-> vert]

\* The jump node of one side of a forced-neighbour check: emitted when the cell
\* `beside` the scanned cell is untraversable and the cell `ahead` of it is not.
ForcedSide(m, check_node, beside, ahead, g0al) ==
    IF ~is_traversable(m, beside) /\ is_traversable(m, ahead)
    THEN <<from_parent(check_node, ahead, g0al)>>
    ELSE <<>>

\* Mutant of forced_horizontal: the check of the lower side looks at the upper
\* row again.
forced_horizontal_upper(m, check_node, dir, g0al) ==
    LET x == check_node.position[1]
        next_x == x + dir
        up_y == check_node.position[2] - 1
    IN ForcedSide(m, check_node, <<x, up_y>>, <<next_x, up_y>>, g0al)
       \o ForcedSide(m, check_node, <<x, up_y>>, <<next_x, up_y>>, g0al)

\* forced_horizontal; None is the empty sequence.
forced_horizontal(m, check_node, dir, g0al) ==
    LET x == check_node.position[1]
        next_x == x + dir
        up_y == check_node.position[2] - 1
        down_y == check_node.position[2] + 1
    IN ForcedSide(m, check_node, <<x, up_y>>, <<next_x, up_y>>, g0al)
       \o ForcedSide(m, check_node, <<x, down_y>>, <<next_x, down_y>>, g0al)

\* forced_vertical; None is the empty sequence.
forced_vertical(m, check_node, dir, g0al) ==
    LET y == check_node.position[2]
        next_y == y + dir
        left_x == check_node.position[1] - 1
        right_x == check_node.position[1] + 1
    IN ForcedSide(m, check_node, <<left_x, y>>, <<left_x, next_y>>, g0al)
       \o ForcedSide(m, check_node, <<right_x, y>>, <<right_x, next_y>>, g0al)

\* Mutant of ExpandLoop: the cursor is checked against the bounds of the grid
\* instead of the oracle, so that it walks through untraversable cells.
RECURSIVE ExpandLoopThroughWalls(_, _, _, _, _)
ExpandLoopThroughWalls(m, start_node, current, dir, g0al) ==
    IF current.position = g0al THEN <<current>>
    ELSE IF ~is_traversable([m EXCEPT !.blocked = {}], current.position) THEN <<>>
    ELSE LET nodes ==
                 CASE dir.tag = "Vertical" ->
                          forced_vertical(m, current, dir.vert, g0al)
                   [] dir.tag = "Horizontal" ->
                          forced_horizontal(m, current, dir.hor, g0al)
                   [] dir.tag = "Diagonal" ->
                          ExpandLoopThroughWalls(m, current, current,
                                                 Horizontal(dir.hor), g0al)
                          \o ExpandLoopThroughWalls(m, current, current,
                                                    Vertical(dir.vert), g0al)
             next_position ==
                 <<current.position[1] + dir.hor, current.position[2] + dir.vert>>
         IN IF nodes # <<>>
            THEN nodes \o <<current, from_parent(current, next_position, g0al)>>
            ELSE ExpandLoopThroughWalls(m, start_node,
                                        from_parent(start_node, next_position, g0al),
                                        dir, g0al)

\* Mutant of ExpandLoop: the forced neighbours are made children of the node
\* that entered the scan instead of the cursor.
RECURSIVE ExpandLoopReparented(_, _, _, _, _)
ExpandLoopReparented(m, start_node, current, dir, g0al) ==
    IF current.position = g0al THEN <<current>>
    ELSE IF ~is_traversable(m, current.position) THEN <<>>
    ELSE LET forced ==
                 CASE dir.tag = "Vertical" ->
                          forced_vertical(m, current, dir.vert, g0al)
                   [] dir.tag = "Horizontal" ->
                          forced_horizontal(m, current, dir.hor, g0al)
                   [] dir.tag = "Diagonal" -> <<>>
             nodes ==
                 IF dir.tag = "Diagonal"
                 THEN ExpandLoopReparented(m, current, current, Horizontal(dir.hor), g0al)
                      \o ExpandLoopReparented(m, current, current, Vertical(dir.vert), g0al)
                 ELSE [i \in 1..Len(forced) |->
                           from_parent(start_node, forced[i].position, g0al)]
             next_position ==
                 <<current.position[1] + dir.hor, current.position[2] + dir.vert>>
         IN IF nodes # <<>>
            THEN nodes \o <<current, from_parent(current, next_position, g0al)>>
            ELSE ExpandLoopReparented(m, start_node,
                                      from_parent(start_node, next_position, g0al),
                                      dir, g0al)

\* Mutant of ExpandLoop: the cursor advances as a child of the cursor before it,
\* not of the node that entered the scan.
RECURSIVE ExpandLoopChained(_, _, _, _, _)
ExpandLoopChained(m, start_node, current, dir, g0al) ==
    IF current.position = g0al THEN <<current>>
    ELSE IF ~is_traversable(m, current.position) THEN <<>>
    ELSE LET nodes ==
                 CASE dir.tag = "Vertical" ->
                          forced_vertical(m, current, dir.vert, g0al)
                   [] dir.tag = "Horizontal" ->
                          forced_horizontal(m, current, dir.hor, g0al)
                   [] dir.tag = "Diagonal" ->
                          ExpandLoopChained(m, current, current, Horizontal(dir.hor), g0al)
                          \o ExpandLoopChained(m, current, current, Vertical(dir.vert), g0al)
             next_position ==
                 <<current.position[1] + dir.hor, current.position[2] + dir.vert>>
         IN IF nodes # <<>>
            THEN nodes \o <<current, from_parent(current, next_position, g0al)>>
            ELSE ExpandLoopChained(m, start_node,
                                   from_parent(current, next_position, g0al), dir, g0al)

\* The loop of expand, entered with the cursor `current`; None is the empty
\* sequence (a Some of the source is never empty).
RECURSIVE ExpandLoop(_, _, _, _, _)
ExpandLoop(m, start_node, current, dir, g0al) ==
    IF current.position = g0al THEN <<current>>
    ELSE IF ~is_traversable(m, current.position) THEN <<>>
    ELSE LET nodes ==
                 CASE dir.tag = "Vertical" ->
                          forced_vertical(m, current, dir.vert, g0al)
                   [] dir.tag = "Horizontal" ->
                          forced_horizontal(m, current, dir.hor, g0al)
                   [] dir.tag = "Diagonal" ->
                          ExpandLoop(m, current, current, Horizontal(dir.hor), g0al)
                          \o ExpandLoop(m, current, current, Vertical(dir.vert), g0al)
             next_position ==
                 <<current.position[1] + dir.hor, current.position[2] + dir.vert>>
         IN IF nodes # <<>>
            THEN nodes \o <<current, from_parent(current, next_position, g0al)>>
            ELSE ExpandLoop(m, start_node,
                            from_parent(start_node, next_position, g0al), dir, g0al)

\* A call of expand: the node it is entered with, its direction and its
\* nesting depth below the scan the loop starts.
Call(node, dir, depth) == [node |-> node, dir |-> dir, depth |-> depth]

\* Mutant of ExpandCalls: the vertical sub-scan of a diagonal scan is only
\* started when the horizontal one returned nothing.
RECURSIVE ExpandCallsEither(_, _, _, _, _, _)
ExpandCallsEither(m, start_node, current, dir, g0al, depth) ==
    IF current.position = g0al \/ ~is_traversable(m, current.position) THEN <<>>
    ELSE LET hor == ExpandLoop(m, current, current, Horizontal(dir.hor), g0al)
             calls ==
                 IF dir.tag = "Diagonal"
                 THEN <<Call(current, Horizontal(dir.hor), depth + 1)>>
                      \o ExpandCallsEither(m, current, current, Horizontal(dir.hor),
                                           g0al, depth + 1)
                      \o (IF hor # <<>> THEN <<>>
                          ELSE <<Call(current, Vertical(dir.vert), depth + 1)>>
                               \o ExpandCallsEither(m, current, current,
                                                    Vertical(dir.vert), g0al, depth + 1))
                 ELSE <<>>
             next_position ==
                 <<current.position[1] + dir.hor, current.position[2] + dir.vert>>
             nodes ==
                 CASE dir.tag = "Vertical" ->
                          forced_vertical(m, current, dir.vert, g0al)
                   [] dir.tag = "Horizontal" ->
                          forced_horizontal(m, current, dir.hor, g0al)
                   [] dir.tag = "Diagonal" ->
                          ExpandLoop(m, current, current, Horizontal(dir.hor), g0al)
                          \o ExpandLoop(m, current, current, Vertical(dir.vert), g0al)
         IN IF nodes # <<>>
            THEN calls
            ELSE calls \o ExpandCallsEither(m, start_node,
                                            from_parent(start_node, next_position, g0al),
                                            dir, g0al, depth)

\* The calls of expand that the loop of expand makes, in order, when entered
\* with the cursor `current` at nesting depth `depth`: two at each traversable
\* cursor cell of a diagonal scan that is not the goal, none in the other scans.
RECURSIVE ExpandCalls(_, _, _, _, _, _)
ExpandCalls(m, start_node, current, dir, g0al, depth) ==
    IF current.position = g0al \/ ~is_traversable(m, current.position) THEN <<>>
    ELSE LET calls ==
                 IF dir.tag = "Diagonal"
                 THEN <<Call(current, Horizontal(dir.hor), depth + 1)>>
                      \o ExpandCalls(m, current, current, Horizontal(dir.hor),
                                     g0al, depth + 1)
                      \o <<Call(current, Vertical(dir.vert), depth + 1)>>
                      \o ExpandCalls(m, current, current, Vertical(dir.vert),
                                     g0al, depth + 1)
                 ELSE <<>>
             next_position ==
                 <<current.position[1] + dir.hor, current.position[2] + dir.vert>>
             nodes ==
                 CASE dir.tag = "Vertical" ->
                          forced_vertical(m, current, dir.vert, g0al)
                   [] dir.tag = "Horizontal" ->
                          forced_horizontal(m, current, dir.hor, g0al)
                   [] dir.tag = "Diagonal" ->
                          ExpandLoop(m, current, current, Horizontal(dir.hor), g0al)
                          \o ExpandLoop(m, current, current, Vertical(dir.vert), g0al)
         IN IF nodes # <<>>
            THEN calls
            ELSE calls \o ExpandCalls(m, start_node,
                                      from_parent(start_node, next_position, g0al),
                                      dir, g0al, depth)

\* expand
expand(m, start_node, dir, g0al) == ExpandLoop(m, start_node, start_node, dir, g0al)

\* check_jump
check_jump(parent, m, dir, g0al) ==
    expand(m, parent,
           IF dir[1] # 0 /\ dir[2] # 0 THEN Diagonal(dir[1], dir[2])
           ELSE IF dir[1] # 0 THEN Horizontal(dir[1])
           ELSE Vertical(dir[2]),
           g0al)

\* ------------------------------------------------------------- collections

\* The bag of the elements of a sequence.
RECURSIVE SeqToBag(_)
SeqToBag(s) ==
    IF s = <<>> THEN EmptyBag ELSE SetToBag({Head(s)}) (+) SeqToBag(Tail(s))

\* The elements of a bag, one after the other, in some order.
RECURSIVE BagToSeq(_)
BagToSeq(b) ==
    IF BagToSet(b) = {} THEN <<>>
    ELSE LET n == CHOOSE e \in BagToSet(b) : TRUE
         IN <<n>> \o BagToSeq(b (-) SetToBag({n}))

\* The positions of the nodes of a sequence.
Positions(s) == {s[i].position : i \in 1..Len(s)}

\* Node's PartialEq: two nodes are equal iff their positions are.
NodeEq(a, b) == a.position = b.position

\* Mutant of contains: nodes are compared field by field, not by position.
containsIdentical(cl, node) == \E i \in 1..Len(cl) : cl[i] = node

\* closed.contains(&node)
contains(cl, node) == \E i \in 1..Len(cl) : NodeEq(cl[i], node)

\* The first node of a sequence at a position (Iterator::find).
Find(cl, position) ==
    cl[CHOOSE i \in 1..Len(cl) :
           /\ cl[i].position = position
           /\ \A j \in 1..(i - 1) : cl[j].position # position]

\* Node's Ord: `node` is a greatest node of the heap, one of least f.
Greatest(heap, node) == \A other \in BagToSet(heap) : F(node) <= F(other) + Eps

\* Mutant of Poppable: the heap is ordered by the heuristic h alone, and pop
\* returns a node nearest to the goal whatever it cost to reach.
PoppableNearest(heap, node) ==
    /\ node \in BagToSet(heap)
    /\ \A other \in BagToSet(heap) : node.h <= other.h + Eps

\* `open.pop()` can return `node`: it is in the heap and no node of the heap is
\* greater.  Nodes of equal f come out in the heap's structural order, which is
\* any order here.
Poppable(heap, node) == node \in BagToSet(heap) /\ Greatest(heap, node)

\* `for node in open { closed.push(node) }` consumes the heap in its internal
\* order.  Drain(heap) is the set of orders that can differ in what a lookup by
\* position finds: for each position one of its nodes comes first.
RECURSIVE Firsts(_, _)
Firsts(heap, positions) ==
    IF positions = {} THEN {<<>>}
    ELSE LET p == CHOOSE q \in positions : TRUE
         IN {<<n>> \o rest :
                 n \in {e \in BagToSet(heap) : e.position = p},
                 rest \in Firsts(heap, positions \ {p})}

Drain(heap) ==
    {firsts \o BagToSeq(heap (-) SeqToBag(firsts)) :
         firsts \in Firsts(heap, {e.position : e \in BagToSet(heap)})}

\* utils::rewind: the positions met by following, from `node`, the parent
\* positions through the first node of `cl` at each, up to the node that is its
\* own parent or to a parent that `cl` lacks; from the goal back to the start.
RECURSIVE RewindFrom(_, _, _)
RewindFrom(node, cl, fuel) ==
    IF node.parent = node.position \/ fuel = 0 \/ node.parent \notin Positions(cl)
    THEN <<node.position>>
    ELSE <<node.position>> \o RewindFrom(Find(cl, node.parent), cl, fuel - 1)

rewind(node, cl) == RewindFrom(node, cl, Len(cl) + 1)

\* Route::from((distance, path)), and the other outcomes of a call.
Route(dist, path) == [kind |-> "route", distance |-> dist, path |-> path]
NoRoute == [kind |-> "none", distance |-> 0, path |-> <<>>]
Panic == [kind |-> "panic", distance |-> 0, path |-> <<>>]
Pending == [kind |-> "pending", distance |-> 0, path |-> <<>>]

\* --------------------------------------------------------------- jps_path

\* start_node of jps_path
StartNode == NewNode(0, distance(start, goal), start, start)

\* `start - 1` on usize with overflow checks off: 0 - 1 wraps to usize::MAX.
WrappingPred(c) == IF c = 0 THEN -1 ELSE c - 1

\* The range lo..=hi of usize: empty when lo is usize::MAX.
RangeInclusive(lo, hi) == IF lo < 0 THEN {} ELSE lo..hi

\* The cells the two loops of the seeding visit.
SeedCells ==
    {<<x, y>> : x \in RangeInclusive(WrappingPred(start[1]), start[1] + 1),
                y \in RangeInclusive(WrappingPred(start[2]), start[2] + 1)}

\* `start - 1` overflows.
SeedOverflows == start[1] = 0 \/ start[2] = 0

\* The heap and the closed list when the loop is entered.
SeededOpen ==
    IF start = goal THEN SetToBag({StartNode})
    ELSE SetToBag({from_parent(StartNode, c, goal) : c \in SeedCells})

SeededClosed == IF start = goal THEN <<>> ELSE <<StartNode>>

\* Mutant of Seed: the start node goes to the closed list in both cases.
SeedStartClosed ==
    /\ pc = "call"
    /\ open' = (IF start = goal THEN EmptyBag ELSE SeededOpen)
    /\ closed' = <<StartNode>>
    /\ pc' = "loop"
    /\ UNCHANGED <<map, start, goal, result, scans>>

\* jps_path up to the while loop.
Seed ==
    /\ pc = "call"
    /\ open' = SeededOpen
    /\ closed' = SeededClosed
    /\ pc' = "loop"
    /\ UNCHANGED <<map, start, goal, result, scans>>

\* jps_path built with overflow checks (the debug profile): `start - 1` panics
\* with "attempt to subtract with overflow".
SeedPanic ==
    /\ pc = "call"
    /\ start # goal
    /\ SeedOverflows
    /\ result' = Panic
    /\ pc' = "done"
    /\ UNCHANGED <<map, start, goal, open, closed, scans>>

\* Mutant of PopGoal: the rest of the heap is not moved to the closed list
\* before the path is rewound.
PopGoalUndrained ==
    /\ pc = "loop"
    /\ \E node_current \in BagToSet(open) :
           /\ Poppable(open, node_current)
           /\ node_current.position = goal
           /\ result' = Route(node_current.g, rewind(node_current, closed))
    /\ open' = EmptyBag
    /\ pc' = "done"
    /\ UNCHANGED <<map, start, goal, closed, scans>>

\* The loop pops a node at the goal: the rest of the heap goes to closed, the
\* path is rewound and the route is returned.
PopGoal ==
    /\ pc = "loop"
    /\ \E node_current \in BagToSet(open) :
           /\ Poppable(open, node_current)
           /\ node_current.position = goal
           /\ \E drained \in Drain(open (-) SetToBag({node_current})) :
                  /\ closed' = closed \o drained
                  /\ result' = Route(node_current.g, rewind(node_current, closed'))
    /\ open' = EmptyBag
    /\ pc' = "done"
    /\ UNCHANGED <<map, start, goal, scans>>

\* The loop pops a node whose position is on the closed list: continue.
PopClosed ==
    /\ pc = "loop"
    /\ \E node_current \in BagToSet(open) :
           /\ Poppable(open, node_current)
           /\ node_current.position # goal
           /\ contains(closed, node_current)
           /\ open' = open (-) SetToBag({node_current})
    /\ UNCHANGED <<map, start, goal, closed, pc, result, scans>>

\* Mutant of PopExpand: the scanned node is not pushed to the closed list.
PopExpandUnclosed ==
    /\ pc = "loop"
    /\ \E node_current \in BagToSet(open) :
           /\ Poppable(open, node_current)
           /\ node_current.position # goal
           /\ ~contains(closed, node_current)
           /\ LET dir == direction(node_current.position, node_current.parent)
                  nodes == check_jump(node_current, map, dir, goal)
              IN open' = (open (-) SetToBag({node_current})) (+) SeqToBag(nodes)
    /\ scans' = scans + 1
    /\ UNCHANGED <<map, start, goal, closed, pc, result>>

\* The loop pops any other node: it is scanned in its direction of travel, the
\* nodes found are pushed and the node goes to the closed list.
PopExpand ==
    /\ pc = "loop"
    /\ \E node_current \in BagToSet(open) :
           /\ Poppable(open, node_current)
           /\ node_current.position # goal
           /\ ~contains(closed, node_current)
           /\ LET dir == direction(node_current.position, node_current.parent)
                  nodes == check_jump(node_current, map, dir, goal)
              IN open' = (open (-) SetToBag({node_current})) (+) SeqToBag(nodes)
           /\ closed' = Append(closed, node_current)
    /\ scans' = scans + 1
    /\ UNCHANGED <<map, start, goal, pc, result>>

\* The heap is empty: the loop ends and jps_path returns None.
Exhausted ==
    /\ pc = "loop"
    /\ open = EmptyBag
    /\ result' = NoRoute
    /\ pc' = "done"
    /\ UNCHANGED <<map, start, goal, open, closed, scans>>

\* ------------------------------------------------------------------ grids

\* The cells of a grid.
Cells(m) == (0..(m.width - 1)) \X (0..(m.height - 1))

\* The 8 neighbours of a cell.
Neighbours(c) ==
    {<<c[1] + dx, c[2] + dy>> : dx \in -1..1, dy \in -1..1} \ {c}

\* A Width x Height grid.
Grid(blocked) == [width |-> Width, height |-> Height, blocked |-> blocked]

\* The Width x Height grids with at most MaxBlocked untraversable cells.
SparseMaps ==
    {Grid(b) : b \in {c \in SUBSET Cells(Grid({})) : Cardinality(c) <= MaxBlocked}}

\* The Width x Height grids whose untraversable cells are the neighbours of one cell.
EnclosureMaps == {Grid(Neighbours(c) \cap Cells(Grid({}))) : c \in Cells(Grid({}))}

\* The 5 x 5 grid with a wall on row 2, columns 0 to 3.
WallMap == [width |-> 5, height |-> 5, blocked |-> {<<x, 2>> : x \in 0..3}]

Maps == SparseMaps \cup EnclosureMaps

Init ==
    /\ map \in Maps
    /\ start \in Cells(map)
    /\ goal \in Cells(map)
    /\ open = EmptyBag
    /\ closed = <<>>
    /\ pc = "call"
    /\ result = Pending
    /\ scans = 0

Next == Seed \/ SeedPanic \/ PopGoal \/ PopClosed \/ PopExpand \/ Exhausted

Spec == Init /\ [][Next]_vars

\* The scenario of the wall: the 5 x 5 grid with the wall, the goal in the
\* corner (4,4), from every start.
InitWall ==
    /\ map = WallMap
    /\ start \in Cells(map)
    /\ goal = <<4, 4>>
    /\ open = EmptyBag
    /\ closed = <<>>
    /\ pc = "call"
    /\ result = Pending
    /\ scans = 0

SpecWall == InitWall /\ [][Next]_vars

\* The calls with an untraversable goal: a grid of SparseMaps in which the goal
\* cell is made untraversable too, from every start.
InitBlockedGoal ==
    /\ \E m \in SparseMaps :
           /\ goal \in Cells(m)
           /\ map = [m EXCEPT !.blocked = @ \cup {goal}]
    /\ start \in Cells(map)
    /\ open = EmptyBag
    /\ closed = <<>>
    /\ pc = "call"
    /\ result = Pending
    /\ scans = 0

SpecBlockedGoal == InitBlockedGoal /\ [][Next]_vars

\* ------------------------------------------------------- reference search

\* A cost larger than that of any route.
Unreached == Huge

\* Cost of one step between two neighbouring cells: 1 or sqrt 2.
StepCost(a, b) == SqrtTable[(a[1] - b[1]) * (a[1] - b[1]) + (a[2] - b[2]) * (a[2] - b[2])]

\* The least of a non-empty set of numbers.
Least(S) == CHOOSE x \in S : \A y \in S : x <= y

\* The costs from the start are a set of pairs <<cell, cost>>, one per cell.
CostOf(d, c) == (CHOOSE p \in d : p[1] = c)[2]

\* One round of relaxation of the costs `d` over every traversable cell and its
\* 8 neighbours.
RelaxOnce(m, d) ==
    {<<c, IF ~is_traversable(m, c) THEN Unreached
          ELSE Least({CostOf(d, c)} \cup
                     {CostOf(d, n) + StepCost(n, c) :
                          n \in {e \in Neighbours(c) : is_traversable(m, e)}})>> :
         c \in Cells(m)}

RECURSIVE Relax(_, _, _)
Relax(m, d, k) == IF k = 0 THEN d ELSE Relax(m, RelaxOnce(m, d), k - 1)

\* Least cost of an 8-connected route of traversable cells from s to every
\* cell, found exhaustively (Bellman-Ford); Unreached or more where none exists.
MinCosts(m, s) ==
    Relax(m, {<<c, IF c = s /\ is_traversable(m, s) THEN 0 ELSE Unreached>> : c \in Cells(m)},
          Cardinality(Cells(m)))

MinCost == CostOf(MinCosts(map, start), goal)

\* Some 8-connected route of traversable cells leads from start to goal.
Solvable == MinCost < Unreached

\* The diagonal-aware straight-line distance between two cells.
Octile(a, b) ==
    LET dx == Abs(a[1] - b[1])
        dy == Abs(a[2] - b[2])
    IN (Max(dx, dy) - Min(dx, dy)) * Scale + Min(dx, dy) * SqrtTable[2]

\* ------------------------------------------------------------------ claims

Returned == pc = "done"

\* C1 (as claimed). Optimality: whenever some 8-connected route of traversable
\* cells leads from start to goal, jps_path returns a route whose distance is the
\* least cost an exhaustive search finds.
C1_Optimality ==
    (Returned /\ Solvable) =>
        (result.kind = "route" /\ Close(result.distance, MinCost))

\* C2 (as claimed). Reachability: on a grid with no untraversable cell, for every
\* start and goal of the grid, jps_path returns a route whose distance is the
\* diagonal-aware straight-line distance from start to goal.
C2_Reachability ==
    (Returned /\ map.blocked = {}) =>
        (result.kind = "route" /\ Close(result.distance, Octile(start, goal)))

\* Every one of the 8 neighbours of the goal is untraversable.
Enclosed == \A c \in Neighbours(goal) : ~is_traversable(map, c)

\* C3 (as claimed). Unreachability: if all 8 neighbours of the goal are
\* untraversable, jps_path returns no route, for every start cell; stated for
\* the start cells other than the goal itself, whose route is the trivial one.
C3_Unreachable ==
    (Returned /\ Enclosed /\ start # goal) => result.kind # "route"

\* What holds of an enclosed goal: if the start is neither the goal nor one of
\* its 8 untraversable neighbours, jps_path returns no route.
C3_UnreachableFromAfar ==
    (Returned /\ Enclosed /\ start # goal /\ start \notin Neighbours(goal)) =>
        result.kind # "route"

\* The case of C3_UnreachableFromAfar: the scanner has run towards an enclosed goal from a start that is
\* not next to it, the heap has emptied and None is returned.
C3_Witness ==
    /\ Returned /\ Enclosed /\ start # goal /\ start \notin Neighbours(goal)
    /\ scans > 0 /\ result.kind = "none"

\* C4 (as claimed). Invalid input: whenever the start or the goal is
\* untraversable, jps_path returns no route.
C4_InvalidInput ==
    (Returned /\ (~is_traversable(map, start) \/ ~is_traversable(map, goal))) =>
        result.kind # "route"

\* Two cells are identical or one orthogonal or diagonal step apart.
OneStep(a, b) == Abs(a[1] - b[1]) <= 1 /\ Abs(a[2] - b[2]) <= 1

\* Two cells are on one horizontal, vertical or 45-degree line.
OnLine(a, b) ==
    a[1] = b[1] \/ a[2] = b[2] \/ Abs(a[1] - b[1]) = Abs(a[2] - b[2])

\* C5 (as claimed). Path validity: in a returned route every two consecutive
\* cells are identical or one step apart, and every cell is traversable.
C5_PathValid ==
    (Returned /\ result.kind = "route") =>
        /\ \A i \in 1..(Len(result.path) - 1) :
               OneStep(result.path[i], result.path[i + 1])
        /\ \A i \in 1..Len(result.path) : is_traversable(map, result.path[i])

\* What holds of a returned path: every two consecutive cells are on one
\* horizontal, vertical or 45-degree line, and every cell other than the start
\* and the goal is traversable.
C5_PathOfJumps ==
    (Returned /\ result.kind = "route") =>
        /\ \A i \in 1..(Len(result.path) - 1) :
               OnLine(result.path[i], result.path[i + 1])
        /\ \A i \in 1..Len(result.path) :
               \/ result.path[i] \in {start, goal}
               \/ is_traversable(map, result.path[i])

\* The case of C5_PathOfJumps: a returned route with two consecutive cells more
\* than one step apart.
C5_Witness ==
    /\ Returned /\ result.kind = "route"
    /\ \E i \in 1..(Len(result.path) - 1) :
           ~OneStep(result.path[i], result.path[i + 1])

\* C6. Trivial path: when start equals goal, jps_path returns a route of
\* distance 0 whose path is that one cell, and the scanner is not invoked.
C6_Trivial ==
    (Returned /\ start = goal) => (result = Route(0, <<start>>) /\ scans = 0)

\* C6 witness: a call with start = goal has returned its route.
C6_Witness == Returned /\ start = goal /\ result.kind = "route"

\* C7 (as claimed). Path order: the path of a returned route begins at the start
\* and ends at the goal.
C7_PathOrder ==
    (Returned /\ result.kind = "route") =>
        (result.path[1] = start /\ result.path[Len(result.path)] = goal)

\* The loop of jps_path run to its end from a heap and a closed list, popping
\* among the nodes that pop can return the one CHOOSE picks: what is returned.
RECURSIVE LoopFrom(_, _)
LoopFrom(heap, cl) ==
    IF heap = EmptyBag THEN NoRoute
    ELSE LET node_current == CHOOSE n \in BagToSet(heap) : Poppable(heap, n)
             rest == heap (-) SetToBag({node_current})
             dir == direction(node_current.position, node_current.parent)
         IN IF node_current.position = goal
            THEN Route(node_current.g,
                       rewind(node_current, cl \o (CHOOSE d \in Drain(rest) : TRUE)))
            ELSE IF contains(cl, node_current) THEN LoopFrom(rest, cl)
            ELSE LoopFrom(rest (+) SeqToBag(check_jump(node_current, map, dir, goal)),
                          Append(cl, node_current))

\* One execution of jps_path on the grid, start and goal of the state.
OneRun == LoopFrom(SeededOpen, SeededClosed)

\* C8 (as claimed). Determinism of cost: every execution of jps_path on a grid,
\* start and goal agrees with that one execution, and so with every other, on
\* whether a route is returned and, within the tolerance, on its distance,
\* whichever node it pops among those of equal f.
C8_Determinism ==
    Returned =>
        /\ (result.kind = "route") <=> (OneRun.kind = "route")
        /\ Close(result.distance, OneRun.distance)

\* What holds of the calls whose start and goal are both traversable: every
\* execution agrees with that one execution on the outcome and the distance.
C8_DeterminismOfValid ==
    (is_traversable(map, start) /\ is_traversable(map, goal)) => C8_Determinism

\* The case of C8_DeterminismOfValid: an execution has scanned and returned a
\* route along another path than that one execution: the two differ in the nodes
\* popped among equals.
C8_Witness ==
    /\ Returned /\ result.kind = "route" /\ scans > 1
    /\ is_traversable(map, start) /\ is_traversable(map, goal)
    /\ result.path # OneRun.path

\* C9 (as claimed). On the 5 x 5 grid with the wall, jps_path from (0,0) to
\* (4,4) returns a route of about the straight-line distance 5.66 whose path
\* contains the cell (4,2).
C9_WallScenario ==
    (Returned /\ map = WallMap /\ start = <<0, 0>> /\ goal = <<4, 4>>) =>
        /\ result.kind = "route"
        /\ Close(result.distance, distance(start, goal))
        /\ \E i \in 1..Len(result.path) : result.path[i] = <<4, 2>>

\* The cells a node can be at: those of the grid and one ring around them, and
\* those the seeding visits.
Universe ==
    ((-1)..map.width) \X ((-1)..map.height) \cup Neighbours(start) \cup {start}

\* What the loop has left to do: the cells not yet on the closed list, then the
\* nodes still in the heap (a scan returns at most 9 nodes).
Rank ==
    Cardinality(Universe \ Positions(closed)) * 10 * (Cardinality(Universe) + 1)
        + BagCardinality(open)

\* jps_path can take a step: it is before the loop, or the heap is empty, or the
\* heap has a node to pop.
CanStep ==
    \/ pc = "call"
    \/ pc = "loop" /\ open = EmptyBag
    \/ pc = "loop" /\ \E node \in BagToSet(open) : Poppable(open, node)

\* C10. Termination: while jps_path has not returned it can take a step, every
\* scan of that step returns, and every iteration of the loop either returns
\* (a node at the goal is popped, or the heap is empty) or lowers Rank, which is
\* never negative.
C10_Termination ==
    /\ [](Returned \/ CanStep)
    /\ [](Rank >= 0 /\ Positions(closed) \subseteq Universe)
    /\ [][pc = "loop" => (pc' = "done" \/ Rank' < Rank)]_vars

\* C10 witness: the loop has scanned, emptied the heap and returned None.
C10_Witness == Returned /\ result.kind = "none" /\ scans > 2 /\ open = EmptyBag

\* The positions of the nodes of the heap.
OpenPositions == {n.position : n \in BagToSet(open)}

\* C11. Ancestors recorded: at every iteration of the loop the parent position
\* of every node of the heap, and of the closed list, is the position of a node
\* of the heap or of the closed list; and when the path is rewound every cell
\* of it after the goal is the position of a node of the closed list and the
\* chain is followed to its end, the start, the one node that is its own parent.
C11_Ancestors ==
    /\ pc = "loop" =>
           /\ \A n \in BagToSet(open) :
                  n.parent \in OpenPositions \cup Positions(closed)
           /\ \A i \in 1..Len(closed) :
                  closed[i].parent \in OpenPositions \cup Positions(closed)
    /\ (Returned /\ result.kind = "route") =>
           /\ \A i \in 2..Len(result.path) : result.path[i] \in Positions(closed)
           /\ \A i \in 1..Len(closed) : closed[i].parent \in Positions(closed)
           /\ result.path[Len(result.path)] = start

\* C11 witness: a route is returned whose goal node was found by a scan, its
\* chain of parents passing through at least two nodes of the closed list.
C11_Witness ==
    /\ Returned /\ result.kind = "route" /\ scans > 1
    /\ Len(result.path) > 3

\* The sum of the Euclidean distances between the consecutive cells of a path.
RECURSIVE PathCost(_)
PathCost(path) ==
    IF Len(path) < 2 THEN 0
    ELSE distance(path[1], path[2]) + PathCost(Tail(path))

\* C12 (as claimed). Cost matches path: the distance of a returned route, the g
\* of the popped goal node, is the sum of the distances between the consecutive
\* cells of its path.
C12_CostMatchesPath ==
    (Returned /\ result.kind = "route") =>
        Close(result.distance, PathCost(result.path))

\* The nodes the loop has scanned so far: those of the closed list after the
\* start node.
Scanned == IF start = goal THEN closed ELSE Tail(closed)

\* C13. No re-expansion: every scan started by the loop puts its node on the
\* closed list, no two nodes scanned are at one position and none is at the
\* start; a scan is only started on a popped node whose position has no node on
\* the closed list, and a popped node whose position has one is dropped with
\* no scan and no change of the closed list.
C13_NoReexpansion ==
    /\ [](pc = "loop" =>
             /\ Len(Scanned) = scans
             /\ \A i, j \in 1..Len(closed) :
                    closed[i].position = closed[j].position => i = j
             /\ \A i \in 1..Len(Scanned) :
                    start # goal => Scanned[i].position # start)
    /\ [][scans' # scans =>
             /\ scans' = scans + 1
             /\ \E n \in BagToSet(open) :
                    ~contains(closed, n) /\ closed' = Append(closed, n)]_vars
    /\ [][\A n \in BagToSet(open) :
             (pc = "loop" /\ pc' = "loop" /\ contains(closed, n)
                 /\ open' = open (-) SetToBag({n}))
             => (closed' = closed /\ scans' = scans)]_vars

\* C13 witness: after several scans the loop is about to pop a node at a
\* position, other than the start, that has been scanned already.
C13_Witness ==
    /\ pc = "loop" /\ scans > 1
    /\ \E n \in BagToSet(open) :
           Poppable(open, n) /\ contains(closed, n) /\ n.position # start

\* C14 (as claimed). Seeding: when start differs from goal, the loop is entered
\* with a heap that holds exactly one node at each of the 8 neighbours of the
\* start, untraversable or not, and none at the start, each with parent = start
\* and g = distance(start, neighbour), and with a closed list that holds
\* exactly the start node, with g = 0; stated for the starts outside row 0 and
\* column 0, where `start - 1` does not overflow.
C14_Seeding ==
    [][(pc = "call" /\ start # goal /\ ~SeedOverflows /\ pc' = "loop") =>
          /\ open' = SetToBag({NewNode(distance(start, c), distance(c, goal), c, start) :
                                   c \in Neighbours(start)})
          /\ closed' = <<NewNode(0, distance(start, goal), start, start)>>]_vars

\* The nodes the loop can scan next: those pop can return that are neither at
\* the goal nor at a position of the closed list.
Scannable ==
    {n \in BagToSet(open) :
        pc = "loop" /\ Poppable(open, n) /\ n.position # goal /\ ~contains(closed, n)}

\* The scan the loop starts on a node.
ScanOf(n) == check_jump(n, map, direction(n.position, n.parent), goal)

\* The cell k steps from a cell in a direction.
Ahead(c, dir, k) == <<c[1] + k * dir[1], c[2] + k * dir[2]>>

\* The cursor node in what a scan returns: the only node when the scan ended at
\* the goal, else the node before the last.
CursorOf(nodes) == IF Len(nodes) = 1 THEN nodes[1] ELSE nodes[Len(nodes) - 1]

\* `child` is a node made by from_parent from `parent`.
ChildOf(child, parent) ==
    /\ child.parent = parent.position
    /\ child.g = parent.g + distance(parent.position, child.position)

\* C15. Scan reparenting: in what a scan returns, the cursor node is the node
\* that entered the scan or, some steps ahead of it, a child of that node (its
\* parent is that node's position, its g that node's g plus the distance from
\* there to the cursor cell); the last node, the continuation, is a child of the
\* cursor at the next cell; and every other node is the cursor again (the cursor
\* of a sub-scan that collected at its first cell), a child of the cursor (a
\* forced neighbour, or the cursor of a sub-scan entered at the cursor) or a
\* child of such a cursor of a sub-scan.
C15_Reparenting ==
    \A s \in Scannable :
        LET nodes == ScanOf(s)
            dir == direction(s.position, s.parent)
            cursor == CursorOf(nodes)
            others == {nodes[i] : i \in 1..(Len(nodes) - 2)}
        IN nodes # <<>> =>
              /\ \/ cursor = s
                 \/ /\ ChildOf(cursor, s)
                    /\ \E k \in 1..(Width + Height) :
                           cursor.position = Ahead(s.position, dir, k)
              /\ Len(nodes) > 1 =>
                     /\ ChildOf(nodes[Len(nodes)], cursor)
                     /\ nodes[Len(nodes)].position = Ahead(cursor.position, dir, 1)
              /\ \A n \in others :
                     \/ n = cursor
                     \/ ChildOf(n, cursor)
                     \/ \E c \in others : ChildOf(c, cursor) /\ ChildOf(n, c)

\* C15 witness: a scan is about to return a cursor node that has advanced from
\* the node that enters the scan, with nodes collected at the cursor.
C15_Witness ==
    \E s \in Scannable :
        /\ Len(ScanOf(s)) > 2
        /\ CursorOf(ScanOf(s)).position # s.position

\* The cursor node of a scan entered by node s when it is k cells ahead of s.
CursorAt(s, dir, k) ==
    IF k = 0 THEN s ELSE from_parent(s, Ahead(s.position, dir, k), goal)

\* No scan goes further than this many cells.
Reach == Width + Height + 2

\* The forced neighbours a straight scan collects at a cursor node.
ForcedAt(cursor, dir) ==
    IF dir[1] # 0 THEN forced_horizontal(map, cursor, dir[1], goal)
    ELSE forced_vertical(map, cursor, dir[2], goal)

\* What the claim says a scan returns, given what it collects at each cursor
\* node: it ends at the first cell that is the goal, is untraversable or has
\* nodes collected; the cursor node alone at the goal, nothing at an
\* untraversable cell, else the collected nodes, the cursor node and a new node
\* at the next cell.
ScanResult(s, dir, Collected(_)) ==
    LET Ends(k) ==
            LET cursor == CursorAt(s, dir, k)
            IN \/ cursor.position = goal
               \/ ~is_traversable(map, cursor.position)
               \/ Collected(cursor) # <<>>
        k == CHOOSE i \in 0..Reach : Ends(i) /\ \A j \in 0..(i - 1) : ~Ends(j)
        cursor == CursorAt(s, dir, k)
    IN IF cursor.position = goal THEN <<cursor>>
       ELSE IF ~is_traversable(map, cursor.position) THEN <<>>
       ELSE Collected(cursor)
            \o <<cursor, from_parent(cursor, Ahead(cursor.position, dir, 1), goal)>>

\* A horizontal or vertical scan collects the forced neighbours of the cursor.
StraightScan(s, dir) ==
    LET Collected(cursor) == ForcedAt(cursor, dir)
    IN ScanResult(s, dir, Collected)

\* A diagonal scan collects what the two straight scans from the cursor return.
DiagonalScan(s, dir) ==
    LET Collected(cursor) ==
            StraightScan(cursor, <<dir[1], 0>>) \o StraightScan(cursor, <<0, dir[2]>>)
    IN ScanResult(s, dir, Collected)

\* C16. Scan result: every scan the loop starts returns the cursor node alone
\* when the cursor is at the goal (traversable or not), nothing when the cursor
\* reaches an untraversable cell that is not the goal, and otherwise, at the
\* first traversable cell where nodes are collected, exactly those nodes, then
\* the cursor node, then one new node at the next cell in the scan's direction.
C16_ScanResult ==
    \A s \in Scannable :
        LET dir == direction(s.position, s.parent)
        IN ScanOf(s) = IF dir[1] # 0 /\ dir[2] # 0 THEN DiagonalScan(s, dir)
                       ELSE StraightScan(s, dir)

\* C16 witness: the loop is about to start a diagonal scan that returns what
\* its sub-scans collected, then the cursor and the continuation.
C16_Witness ==
    \E s \in Scannable :
        /\ s.position[1] # s.parent[1] /\ s.position[2] # s.parent[2]
        /\ Len(ScanOf(s)) > 3

\* The elements of a sequence.
Range(seq) == {seq[i] : i \in 1..Len(seq)}

\* The nodes of the heap and of the closed list.
Nodes == BagToSet(open) \cup Range(closed)

\* C17. Forced-neighbour detection: for every node of the heap or the closed
\* list, at a cell (x,y), and every step d, forced_horizontal returns one node at
\* (x+d, y+s) for each s in {-1,+1} such that (x, y+s) is untraversable and
\* (x+d, y+s) is traversable, and no other node; forced_vertical does the same
\* with rows and columns exchanged; each returns at most two nodes, all of them
\* children of the scanned node.
C17_Forced ==
    \A check_node \in Nodes, d \in {-1, 1} :
        LET x == check_node.position[1]
            y == check_node.position[2]
            hor == forced_horizontal(map, check_node, d, goal)
            vert == forced_vertical(map, check_node, d, goal)
        IN /\ Len(hor) <= 2 /\ Len(vert) <= 2
           /\ Len(hor) = Cardinality(Range(hor))
           /\ Len(vert) = Cardinality(Range(vert))
           /\ \A n \in Range(hor) \cup Range(vert) : ChildOf(n, check_node)
           /\ Positions(hor) =
                  {<<x + d, y + s>> : s \in {t \in {-1, 1} :
                       /\ ~is_traversable(map, <<x, y + t>>)
                       /\ is_traversable(map, <<x + d, y + t>>)}}
           /\ Positions(vert) =
                  {<<x + s, y + d>> : s \in {t \in {-1, 1} :
                       /\ ~is_traversable(map, <<x + t, y>>)
                       /\ is_traversable(map, <<x + t, y + d>>)}}

\* C17 witness: the heap holds a forced neighbour found by a scan: a child of a
\* node of the heap or the closed list at which forced_horizontal or
\* forced_vertical returns it.
C17_Witness ==
    /\ pc = "loop" /\ scans > 0
    /\ \E n \in BagToSet(open), c \in Nodes, d \in {-1, 1} :
           /\ n.parent = c.position
           /\ n \in Range(forced_horizontal(map, c, d, goal))
                    \cup Range(forced_vertical(map, c, d, goal))

\* The calls of expand made below the scan that the loop starts on a node.
CallsOf(s) ==
    LET dir == direction(s.position, s.parent)
    IN ExpandCalls(map, s, s,
                   IF dir[1] # 0 /\ dir[2] # 0 THEN Diagonal(dir[1], dir[2])
                   ELSE IF dir[1] # 0 THEN Horizontal(dir[1])
                   ELSE Vertical(dir[2]),
                   goal, 0)

\* The cursor cells of the diagonal scan entered by s that are traversable and
\* not the goal, as steps from s: those up to the first cell that is the goal,
\* is untraversable or has nodes collected, this one included in the last case.
DiagonalCursors(s, dir) ==
    LET Collected(k) ==
            StraightScan(CursorAt(s, dir, k), <<dir[1], 0>>)
            \o StraightScan(CursorAt(s, dir, k), <<0, dir[2]>>)
        Open(k) ==
            LET c == Ahead(s.position, dir, k)
            IN c # goal /\ is_traversable(map, c)
    IN {k \in 0..Reach :
           /\ Open(k)
           /\ \A j \in 0..(k - 1) : Open(j) /\ Collected(j) = <<>>}

\* C18. Bounded recursion: the scan the loop starts calls the scanner, when it
\* is diagonal, exactly once in direction (dx,0) and then once in direction
\* (0,dy) from the cursor node at each traversable cursor cell that is not the
\* goal, and at no other; when it is horizontal or vertical it calls nothing;
\* no call is nested deeper than one level below the scan of the loop.
C18_BoundedRecursion ==
    \A s \in Scannable :
        LET dir == direction(s.position, s.parent)
            calls == CallsOf(s)
            cursors == DiagonalCursors(s, dir)
        IN /\ \A i \in 1..Len(calls) : calls[i].depth = 1
           /\ (dir[1] = 0 \/ dir[2] = 0) => calls = <<>>
           /\ (dir[1] # 0 /\ dir[2] # 0) =>
                  /\ Len(calls) = 2 * Cardinality(cursors)
                  /\ \A k \in cursors :
                         /\ calls[2 * k + 1] =
                                Call(CursorAt(s, dir, k), Horizontal(dir[1]), 1)
                         /\ calls[2 * k + 2] =
                                Call(CursorAt(s, dir, k), Vertical(dir[2]), 1)

\* C18 witness: the loop is about to start a diagonal scan that calls the
\* scanner at two cursor cells or more.
C18_Witness == \E s \in Scannable : Len(CallsOf(s)) > 3

\* The cells of the segment from a to b, the two included, for a and b on one
\* horizontal, vertical or 45-degree line.
Segment(a, b) ==
    {Ahead(a, direction(b, a), k) :
         k \in 0..Max(Abs(b[1] - a[1]), Abs(b[2] - a[2]))}

\* C19. Straight traversable segments: when start and goal are traversable and
\* differ, every two consecutive cells of a returned path are on one
\* horizontal, vertical or 45-degree line and every cell of the segment between
\* them, the two included, is traversable.
C19_Segments ==
    (/\ Returned /\ result.kind = "route" /\ start # goal
     /\ is_traversable(map, start) /\ is_traversable(map, goal)) =>
        \A i \in 1..(Len(result.path) - 1) :
            /\ OnLine(result.path[i], result.path[i + 1])
            /\ \A c \in Segment(result.path[i], result.path[i + 1]) :
                   is_traversable(map, c)

\* C19 witness: a route between traversable cells is returned with two
\* consecutive cells of its path more than one step apart, and with a turn.
C19_Witness ==
    /\ Returned /\ result.kind = "route" /\ start # goal
    /\ is_traversable(map, start) /\ is_traversable(map, goal)
    /\ Len(result.path) > 2
    /\ \E i \in 1..(Len(result.path) - 1) :
           ~OneStep(result.path[i], result.path[i + 1])

====
